---- MODULE Spec2Model ----
(***************************************************************************)
(* Lorenz-curve / Gini-coefficient dashboard (src/app.py).                 *)
(*                                                                         *)
(* The script is re-executed from its first line on every widget event.    *)
(* The state is the widget state (the segment-count slider, the edited     *)
(* Income Share column, the exponent slider) and the names the last        *)
(* execution of the script bound (current_total, cum_y, x_coords, area_b,  *)
(* gini, area_sim, g_sim) together with what it rendered.                  *)
(*                                                                         *)
(* Numbers.  The script computes in binary floating point on decimal       *)
(* inputs; the model computes the same expressions exactly, in fixed point:*)
(*   Income Share, current_total   units of 1/UnitsPerPercent percent      *)
(*   shares/100, cum_y, h1, h2     units of 1/YScale                       *)
(*   x_coords, base                units of 1/XScale                       *)
(*   avg_h                         units of 1/(2*YScale)                   *)
(*   seg_area, area_b, gini        units of 1/AreaScale                    *)
(*   the st.metric value           units of 1/10^4                         *)
(*   n_exp                         tenths (the slider's step)              *)
(*   x_sim                         units of 1/SimPoints                    *)
(*   y_sim                         units of 1/SimScale                     *)
(*   area_sim, g_sim               units of 1/SimAreaScale                 *)
(* x ** p_value is irrational for most slider positions: y_sim, area_sim   *)
(* and g_sim are enclosures [lo, hi] of the real value, computed with      *)
(* outward rounding (lo rounded down, hi rounded up).                      *)
(* A name the script did not bind in a run is the empty sequence None, a   *)
(* bound scalar v is <<v>>.  Python indexes from 0, TLA+ from 1: cum_y[i]  *)
(* of the script is cum_y[i+1] here.                                       *)
(***************************************************************************)
EXTENDS Integers, Sequences, FiniteSets, TLC

VARIABLES
    n_points,       \* st.select_slider value                      (line 68)
    edited_df,      \* the "Income Share" column of edited_df       (line 74)
    rendered,       \* the script has run on the current widget state
    current_total,  \* round(sum, 2)                                (line 76)
    banner,         \* st.success / st.error                        (lines 78-82)
    cum_y,          \* line 86
    x_coords,       \* line 87
    area_b,         \* lines 91-97
    calc_df,        \* the breakdown table shown by st.table        (lines 98-106)
    gini,           \* line 110
    metric,         \* round(gini, 4) shown by st.metric            (line 111)
    col_res,        \* what the result column shows                 (lines 109-128)
    n_exp,          \* st.slider value, in tenths                   (line 135)
    x_sim,          \* line 137
    y_sim,          \* line 137
    area_sim,       \* line 138
    g_sim,          \* line 139
    prev_exp,       \* n_exp of the preceding execution of the script
    prev_g          \* g_sim of the preceding execution of the script

labVars == <<n_points, edited_df, current_total, banner, cum_y, x_coords,
             area_b, calc_df, gini, metric, col_res>>

simVars == <<n_exp, x_sim, y_sim, area_sim, g_sim, prev_exp, prev_g>>

vars == <<rendered, labVars, simVars>>

-----------------------------------------------------------------------------
(* Bounds of the model *)

\* An edit session types into the first EditRows rows of the data editor.
EditRows == 3

\* Input tables of the single-run specification lie on a grid of this many
\* steps per 100%.
GridParts == 20

-----------------------------------------------------------------------------
(* Fixed-point scales *)

\* Income Share is a float column; the model enters it to 3 decimals.
UnitsPerPercent == 10^3

Percent(p) == p * UnitsPerPercent

NPointsOptions == {5, 10, 20}

NPointsDefault == 5

RECURSIVE Gcd(_, _)
Gcd(a, b) == IF b = 0 THEN a ELSE Gcd(b, a % b)

RECURSIVE LcmOf(_)
LcmOf(S) ==
    IF S = {} THEN 1
    ELSE LET m == CHOOSE m \in S : TRUE
             r == LcmOf(S \ {m})
         IN (m \div Gcd(m, r)) * r

\* shares/100: a share of s units is the fraction s / YScale.
YScale == 100 * UnitsPerPercent

\* every 1/n of the slider's options is a whole number of 1/XScale.
XScale == LcmOf(NPointsOptions)

AreaScale == XScale * 2 * YScale

None == << >>
Some(v) == << v >>

-----------------------------------------------------------------------------
(* Arithmetic helpers *)

\* round-half-to-even of a/d (d > 0), as Python's and NumPy's round do.
RoundHalfEven(a, d) ==
    LET q == a \div d
        r == a % d
    IN IF 2 * r < d THEN q
       ELSE IF 2 * r > d THEN q + 1
       ELSE IF q % 2 = 0 THEN q ELSE q + 1

RECURSIVE SumSeq(_)
SumSeq(s) == IF s = << >> THEN 0 ELSE Head(s) + SumSeq(Tail(s))

\* f[lo] + ... + f[hi]
RECURSIVE SumRange(_, _, _)
SumRange(f, lo, hi) ==
    IF lo > hi THEN 0
    ELSE IF lo = hi THEN f[lo]
    ELSE LET mid == (lo + hi) \div 2
         IN SumRange(f, lo, mid) + SumRange(f, mid + 1, hi)

-----------------------------------------------------------------------------
(* Tab 2, the Manual Lab: lines 68-128 *)

\* init_shares = [round(100.0/n_points, 1)] * n_points
InitShares(n) ==
    [i \in 1..n |-> RoundHalfEven(100 * 10, n) * (UnitsPerPercent \div 10)]

\* current_total = round(edited_df["Income Share"].sum(), 2)
CurrentTotal(df) ==
    RoundHalfEven(SumSeq(df), UnitsPerPercent \div 100)
        * (UnitsPerPercent \div 100)

\* Variant: a lenient gate that lets every positive total through.
TotalIsPositive(total) == total > 0

\* current_total == 100.0
TotalIs100(total) == total = Percent(100)

\* np.cumsum
RECURSIVE CumSum(_)
CumSum(s) ==
    IF s = << >> THEN << >>
    ELSE LET c == CumSum(SubSeq(s, 1, Len(s) - 1))
         IN Append(c, (IF c = << >> THEN 0 ELSE c[Len(c)]) + s[Len(s)])

\* cum_y = np.cumsum(np.insert(shares/100, 0, 0))
CumY(df) == CumSum(<< 0 >> \o df)

\* Variant: np.linspace(0, 1, n_points), one sample short.
XCoordsShort(n) == [i \in 1..n |-> ((i - 1) * XScale) \div (n - 1)]

\* x_coords = np.linspace(0, 1, n_points + 1)
XCoords(n) == [i \in 1..(n + 1) |-> (i - 1) * (XScale \div n)]

\* Variant: base = 1/(n_points - 1), the spacing of n_points samples.
BaseOfSamples(n) == XScale \div (n - 1)

\* base = 1/n_points
Base(n) == XScale \div n

\* Variant: the right-hand height alone (a rectangle rule).
AvgHRight(h1, h2) == 2 * h2

\* avg_h = (h1 + h2) / 2
AvgH(h1, h2) == h1 + h2

\* seg_area = base * avg_h
SegArea(base, avg_h) == base * avg_h

\* One row of calc_data: h1, h2, avg_h, seg_area of iteration i (0-based).
CalcRow(cy, n, i) ==
    LET h1 == cy[i + 1]
        h2 == cy[i + 2]
        avg_h == AvgH(h1, h2)
    IN << h1, h2, avg_h, SegArea(Base(n), avg_h) >>

\* Variant: range(n_points - 1), the last segment left out.
LoopRangeShort(n) == 0..(n - 2)

\* range(n_points): the iterations of the loop
LoopRange(n) == 0..(n - 1)

\* calc_data after the loop
CalcData(cy, n) == [k \in 1..Cardinality(LoopRange(n)) |-> CalcRow(cy, n, k - 1)]

\* area_b = 0
AreaInit == 0

\* area_b after the iterations 0..k-1 of the loop: area_b += seg_area
RECURSIVE AreaLoop(_, _, _)
AreaLoop(cy, n, k) ==
    IF k = 0 THEN AreaInit
    ELSE AreaLoop(cy, n, k - 1) + CalcRow(cy, n, k - 1)[4]

AreaB(cy, n) == AreaLoop(cy, n, Cardinality(LoopRange(n)))

\* 0.5 in units of 1/AreaScale
Half == AreaScale \div 2

\* (0.5 - area_b)
AreaA(area) == Half - area

\* Variant: gini = 0.5 - area_b, the division by 0.5 left out.
GiniUnscaled(area) == AreaA(area)

\* gini = (0.5 - area_b) / 0.5
Gini(area) == 2 * AreaA(area)

\* round(gini, 4)
Round4(g) == RoundHalfEven(g, AreaScale \div 10^4)

\* Variant: the curve and the loop under `if current_total > 0:`.
ColCtrlLenient(n, df) ==
    LET total == CurrentTotal(df)
        ok    == TotalIs100(total)
        some  == total > 0
        cy    == CumY(df)
    IN [ current_total |-> total,
         banner        |-> IF ok THEN "success" ELSE "error",
         cum_y         |-> IF some THEN cy ELSE None,
         x_coords      |-> IF some THEN XCoords(n) ELSE None,
         area_b        |-> IF some THEN Some(AreaB(cy, n)) ELSE None,
         calc_df       |-> IF some THEN CalcData(cy, n) ELSE None ]

\* `with col_ctrl:` from line 76 on: the total, the banner, and under
\* `if current_total == 100.0:` the coordinates, the loop and the table.
ColCtrl(n, df) ==
    LET total == CurrentTotal(df)
        ok    == TotalIs100(total)
        cy    == CumY(df)
    IN [ current_total |-> total,
         banner        |-> IF ok THEN "success" ELSE "error",
         cum_y         |-> IF ok THEN cy ELSE None,
         x_coords      |-> IF ok THEN XCoords(n) ELSE None,
         area_b        |-> IF ok THEN Some(AreaB(cy, n)) ELSE None,
         calc_df       |-> IF ok THEN CalcData(cy, n) ELSE None ]

\* `with col_res:` the metric under `if current_total == 100.0:`, else the
\* placeholder image.
ColRes(total, area) ==
    IF TotalIs100(total)
    THEN LET g == Gini(area[1])
         IN [ gini |-> Some(g), metric |-> Some(Round4(g)), col_res |-> "metric" ]
    ELSE [ gini |-> None, metric |-> None, col_res |-> "placeholder" ]

\* One execution of lines 76-128 on the widget state (n, df): the names it
\* binds and what it renders.
ManualLab(n, df) ==
    LET ctrl == ColCtrl(n, df)
        res  == ColRes(ctrl.current_total, ctrl.area_b)
    IN [ current_total |-> ctrl.current_total,
         banner        |-> ctrl.banner,
         cum_y         |-> ctrl.cum_y,
         x_coords      |-> ctrl.x_coords,
         area_b        |-> ctrl.area_b,
         calc_df       |-> ctrl.calc_df,
         gini          |-> res.gini,
         metric        |-> res.metric,
         col_res       |-> res.col_res ]

-----------------------------------------------------------------------------
(* Tab 3, the Simulator: lines 10-13 and 135-139 *)

\* st.slider(..., 1.0, 10.0, 2.0, 0.1), in tenths
SliderMin == 10

SliderMax == 100

NExpDefault == 20

SliderRange == SliderMin..SliderMax

\* get_lorenz_coords(100, n_exp)
SimPoints == 100

\* y_sim is held to 6 decimals.
SimScale == 10^6

SplitBase == 10^3

SimAreaScale == SimPoints * 2 * SimScale

\* a*b rounded down to 1/SimScale, for 0 <= a, b <= SimScale
MulLo(a, b) ==
    LET p1 == (a \div SplitBase) * b
        p0 == (a % SplitBase) * b
    IN (p1 + (p0 \div SplitBase)) \div SplitBase

\* a*b rounded up to 1/SimScale
MulHi(a, b) ==
    LET p1 == (a \div SplitBase) * b
        p0 == (a % SplitBase) * b
        t  == p1 + (p0 \div SplitBase)
    IN (t \div SplitBase)
       + (IF p0 % SplitBase = 0 /\ t % SplitBase = 0 THEN 0 ELSE 1)

\* a^m for a whole m, rounded down at every product
RECURSIVE PowLo(_, _)
PowLo(a, m) == IF m = 0 THEN SimScale ELSE MulLo(PowLo(a, m - 1), a)

\* a^m for a whole m, rounded up at every product
RECURSIVE PowHi(_, _)
PowHi(a, m) == IF m = 0 THEN SimScale ELSE MulHi(PowHi(a, m - 1), a)

\* the largest r in lo..hi-1 whose tenth power, rounded up, is at most X
RECURSIVE BisectLo(_, _, _)
BisectLo(X, lo, hi) ==
    IF hi - lo <= 1 THEN lo
    ELSE LET mid == (lo + hi) \div 2
         IN IF PowHi(mid, 10) <= X
            THEN BisectLo(X, mid, hi) ELSE BisectLo(X, lo, mid)

\* the least r in lo+1..hi whose tenth power, rounded down, is at least X
RECURSIVE BisectHi(_, _, _)
BisectHi(X, lo, hi) ==
    IF hi - lo <= 1 THEN hi
    ELSE LET mid == (lo + hi) \div 2
         IN IF PowLo(mid, 10) >= X
            THEN BisectHi(X, lo, mid) ELSE BisectHi(X, mid, hi)

\* X ** 0.1: lo <= the real tenth root <= hi
TenthRoot(X) ==
    [ lo |-> BisectLo(X, 0, SimScale + 1), hi |-> BisectHi(X, -1, SimScale) ]

\* the tenth roots of the sample points i/SimPoints, computed once
TenthRootOfSample ==
    [i \in 0..SimPoints |-> TenthRoot((i * SimScale) \div SimPoints)]

\* X ** (k/10) for X = i/SimPoints: X^(k div 10) * (X^0.1)^(k mod 10)
Power(i, k) ==
    LET X == (i * SimScale) \div SimPoints
        r == TenthRootOfSample[i]
    IN [ lo |-> MulLo(PowLo(X, k \div 10), PowLo(r.lo, k % 10)),
         hi |-> MulHi(PowHi(X, k \div 10), PowHi(r.hi, k % 10)) ]

\* Variant: y = x**int(p_value), the fraction of the exponent dropped.
get_lorenz_coords_int(n, p_value) ==
    [ x |-> [i \in 1..(n + 1) |-> ((i - 1) * SimPoints) \div n],
      y |-> [i \in 1..(n + 1) |->
               Power(((i - 1) * SimPoints) \div n, (p_value \div 10) * 10)] ]

\* def get_lorenz_coords(n_points, p_value):
\*     x = np.linspace(0, 1, n_points + 1); y = x**p_value
get_lorenz_coords(n, p_value) ==
    [ x |-> [i \in 1..(n + 1) |-> ((i - 1) * SimPoints) \div n],
      y |-> [i \in 1..(n + 1) |-> Power(((i - 1) * SimPoints) \div n, p_value)] ]

\* np.trapezoid(y, x): sum(diff(x) * (y[1:] + y[:-1]) / 2), on one end of
\* the enclosures
Trapezoid(y, x) ==
    SumRange([k \in 1..(Len(x) - 1) |-> (x[k + 1] - x[k]) * (y[k + 1] + y[k])],
             1, Len(x) - 1)

HalfSim == SimAreaScale \div 2

\* g_sim = (0.5 - area_sim) / 0.5
GiniSim(area) ==
    [ lo |-> 2 * (HalfSim - area.hi), hi |-> 2 * (HalfSim - area.lo) ]

\* One execution of lines 135-139 with the slider at n_exp.
Simulator(k) ==
    LET c    == get_lorenz_coords(SimPoints, k)
        ylo  == [i \in 1..Len(c.y) |-> c.y[i].lo]
        yhi  == [i \in 1..Len(c.y) |-> c.y[i].hi]
        area == [ lo |-> Trapezoid(ylo, c.x), hi |-> Trapezoid(yhi, c.x) ]
    IN [ x_sim |-> c.x, y_sim |-> c.y, area_sim |-> area,
         g_sim |-> GiniSim(area) ]

\* Simulator at every slider position, computed once
SimulatorAt == [k \in SliderRange |-> Simulator(k)]

-----------------------------------------------------------------------------
(* One execution of the script *)

\* The names one execution binds and what it renders become the state.
Bind(out, sim) ==
    /\ rendered' = TRUE
    /\ current_total' = out.current_total
    /\ banner' = out.banner
    /\ cum_y' = out.cum_y
    /\ x_coords' = out.x_coords
    /\ area_b' = out.area_b
    /\ calc_df' = out.calc_df
    /\ gini' = out.gini
    /\ metric' = out.metric
    /\ col_res' = out.col_res
    /\ x_sim' = sim.x_sim
    /\ y_sim' = sim.y_sim
    /\ area_sim' = sim.area_sim
    /\ g_sim' = sim.g_sim
    /\ prev_exp' = n_exp
    /\ prev_g' = g_sim

\* Variant: the Manual Lab results are kept from the preceding execution
\* when the segment count and the rounded total have not changed.
RerunCached(n, df, k) ==
    Bind(IF n = n_points /\ CurrentTotal(df) = current_total
         THEN [ current_total |-> current_total, banner |-> banner,
                cum_y |-> cum_y, x_coords |-> x_coords, area_b |-> area_b,
                calc_df |-> calc_df, gini |-> gini, metric |-> metric,
                col_res |-> col_res ]
         ELSE ManualLab(n, df),
         SimulatorAt[k])

\* The script runs to its end on the widget state (n, df, k).
Rerun(n, df, k) == Bind(ManualLab(n, df), SimulatorAt[k])

-----------------------------------------------------------------------------
(* The Manual Lab session *)

\* Values typed into an Income Share cell.
ShareValues ==
    { Percent(-10), 0, Percent(10), Percent(20), Percent(20) + 4, Percent(30) }

\* Rows of an n-row table the session types into.
Editable(n) == { i \in 1..n : i <= EditRows }

\* The page as first served: every widget at its default, the script run.
Init ==
    /\ n_points = NPointsDefault
    /\ edited_df = InitShares(NPointsDefault)
    /\ n_exp = NExpDefault
    /\ rendered = TRUE
    /\ LET out == ManualLab(n_points, edited_df)
           sim == SimulatorAt[n_exp]
       IN /\ current_total = out.current_total
          /\ banner = out.banner
          /\ cum_y = out.cum_y
          /\ x_coords = out.x_coords
          /\ area_b = out.area_b
          /\ calc_df = out.calc_df
          /\ gini = out.gini
          /\ metric = out.metric
          /\ col_res = out.col_res
          /\ x_sim = sim.x_sim
          /\ y_sim = sim.y_sim
          /\ area_sim = sim.area_sim
          /\ g_sim = sim.g_sim
          /\ prev_exp = n_exp
          /\ prev_g = sim.g_sim

\* The user moves the segment-count slider: the data editor is rebuilt from
\* the new df_input and the script runs.
SelectNPoints(n) ==
    /\ n \in NPointsOptions
    /\ n # n_points
    /\ n_points' = n
    /\ edited_df' = InitShares(n)
    /\ UNCHANGED n_exp
    /\ Rerun(n, InitShares(n), n_exp)

\* The user types v into row i of the data editor and the script runs.
EditCell(i, v) ==
    /\ i \in Editable(n_points)
    /\ v \in ShareValues
    /\ v # edited_df[i]
    /\ LET df == [edited_df EXCEPT ![i] = v]
       IN /\ edited_df' = df
          /\ Rerun(n_points, df, n_exp)
    /\ UNCHANGED <<n_points, n_exp>>

Next ==
    \/ \E n \in NPointsOptions : SelectNPoints(n)
    \/ \E i \in 1..n_points, v \in ShareValues : EditCell(i, v)

Spec == Init /\ [][Next]_vars

-----------------------------------------------------------------------------
(* The Simulator session *)

\* The user moves the exponent slider and the script runs.
MoveSlider(k) ==
    /\ k \in SliderRange
    /\ k # n_exp
    /\ n_exp' = k
    /\ UNCHANGED <<n_points, edited_df>>
    /\ Rerun(n_points, edited_df, k)

NextSim == \E k \in SliderRange : MoveSlider(k)

SpecSim == Init /\ [][NextSim]_vars

-----------------------------------------------------------------------------
(* A single execution of the script on a given widget state *)

\* 100% in GridParts steps; the last row takes what the grid leaves over.
GridStep == Percent(100) \div GridParts

GridRest == Percent(100) - GridParts * GridStep

\* the non-decreasing sequences of k step counts >= lo that add up to total
RECURSIVE NonDecreasing(_, _, _)
NonDecreasing(k, total, lo) ==
    IF k = 1
    THEN (IF total >= lo THEN { << total >> } ELSE {})
    ELSE UNION { { << v >> \o t : t \in NonDecreasing(k - 1, total - v, v) }
                 : v \in lo..(total \div k) }

\* tables of non-negative shares in non-decreasing order summing to 100
SortedTables(n) ==
    { [i \in 1..n |-> c[i] * GridStep + (IF i = n THEN GridRest ELSE 0)]
      : c \in NonDecreasing(n, GridParts, 0) }

\* tables with one row at 100 and the others at 0
OneHotTables(n) ==
    { [i \in 1..n |-> IF i = k THEN Percent(100) ELSE 0] : k \in 1..n }

\* tables with the same share in every row, the cleared table among them
UniformTables(n) ==
    { [i \in 1..n |-> c * GridStep] : c \in 0..GridParts } \cup { InitShares(n) }

InputTables(n) == SortedTables(n) \cup OneHotTables(n) \cup UniformTables(n)

\* One widget state is given; the script has not run on it yet.
InitRun ==
    /\ \/ /\ n_points \in NPointsOptions
          /\ edited_df \in InputTables(n_points)
          /\ n_exp = NExpDefault
       \/ /\ n_points = NPointsDefault
          /\ edited_df = InitShares(NPointsDefault)
          /\ n_exp \in SliderRange
    /\ rendered = FALSE
    /\ current_total = None
    /\ banner = "none"
    /\ cum_y = None
    /\ x_coords = None
    /\ area_b = None
    /\ calc_df = None
    /\ gini = None
    /\ metric = None
    /\ col_res = "none"
    /\ x_sim = None
    /\ y_sim = None
    /\ area_sim = None
    /\ g_sim = None
    /\ prev_exp = n_exp
    /\ prev_g = None

RunScript ==
    /\ ~rendered
    /\ UNCHANGED <<n_points, edited_df, n_exp>>
    /\ Rerun(n_points, edited_df, n_exp)

NextRun == RunScript

SpecRun == InitRun /\ [][NextRun]_vars

-----------------------------------------------------------------------------
(* Properties *)

Accepted == rendered /\ col_res = "metric"

Total == SumSeq(edited_df)

\* round(total, 2) leaves 100.00 alone up to half a hundredth of a percent.
Tolerance == UnitsPerPercent \div 200

Abs(a) == IF a < 0 THEN -a ELSE a

\* sum over the segments of (x[i] - x[i-1]) * (y[i-1] + y[i]) / 2, in units
\* of 1/(2 * the unit of x * the unit of y)
TrapezoidRule(x, y) ==
    SumRange([i \in 1..(Len(x) - 1) |-> (x[i + 1] - x[i]) * (y[i] + y[i + 1])],
             1, Len(x) - 1)

AllEqual(df) == \A i \in 1..Len(df) : df[i] = df[1]

SortedNonNegative(df) ==
    /\ \A i \in 1..Len(df) : df[i] >= 0
    /\ \A i \in 1..(Len(df) - 1) : df[i] <= df[i + 1]

\* C1: whenever the Manual Lab shows a Gini, the shown value and the Gini are
\* not negative, the Gini is at most 1 and Area B lies in [0, 0.5].
C1_GiniFlooredAtZero ==
    Accepted =>
        /\ metric[1] >= 0
        /\ gini[1] >= 0
        /\ gini[1] <= AreaScale
        /\ area_b[1] >= 0
        /\ area_b[1] <= Half

\* C2 as stated: a table whose shares have a positive sum other than 100 is
\* not rejected; a Gini is computed from shares divided by their sum, so the
\* curve ends at 1.
C2_LenientNormalization ==
    (rendered /\ Total > 0 /\ Total # Percent(100)) =>
        /\ col_res = "metric"
        /\ gini # None
        /\ cum_y[n_points + 1] = YScale

\* C2 amended: a table is accepted only if its total is within half a
\* hundredth of a percent of 100, and always if it is closer than that; a
\* rejected table gets the error banner and the placeholder and no Gini; the
\* shares of an accepted table are divided by 100, not by their sum.
C2_StrictTotal ==
    rendered =>
        /\ col_res = "metric" => Abs(Total - Percent(100)) <= Tolerance
        /\ Abs(Total - Percent(100)) < Tolerance => col_res = "metric"
        /\ col_res # "metric" =>
              banner = "error" /\ col_res = "placeholder" /\ gini = None
        /\ col_res = "metric" =>
              \A i \in 1..n_points : cum_y[i + 1] - cum_y[i] = edited_df[i]

\* C2 witness: a positive total other than 100 has been rejected.
C2_Witness ==
    /\ rendered
    /\ Total > 0
    /\ Total # Percent(100)
    /\ col_res = "placeholder"

\* C3: a run computes Area B, the breakdown table and the Gini exactly when
\* its validity check passed, and otherwise shows the placeholder; a total of
\* 0 never passes.
C3_NoGiniUnlessValid ==
    rendered =>
        LET ok == current_total = Percent(100)
        IN /\ ok <=> area_b # None
           /\ ok <=> cum_y # None
           /\ ok <=> calc_df # None
           /\ ok <=> gini # None
           /\ ok <=> metric # None
           /\ ok <=> col_res = "metric"
           /\ ~ok <=> col_res = "placeholder"
           /\ Total = 0 => ~ok

\* C3 witness: the script has run on a table whose total is 0.
C3_Witness ==
    /\ rendered
    /\ Total = 0
    /\ area_b = None
    /\ gini = None
    /\ col_res = "placeholder"

\* C4 as stated: for every accepted table both coordinate sequences have
\* length n+1, start at 0, end at 1 and are non-decreasing.
C4_CoordsMonotoneToOne ==
    Accepted =>
        /\ Len(x_coords) = n_points + 1
        /\ Len(cum_y) = n_points + 1
        /\ x_coords[1] = 0 /\ cum_y[1] = 0
        /\ x_coords[n_points + 1] = XScale
        /\ cum_y[n_points + 1] = YScale
        /\ \A i \in 1..n_points :
              x_coords[i] <= x_coords[i + 1] /\ cum_y[i] <= cum_y[i + 1]

\* C4 amended: for every accepted table both sequences have length n+1 and
\* start at 0; x_coords increases and ends at 1; cum_y ends at total/100,
\* which is within 0.00005 of 1 and is 1 when the shares sum to exactly 100;
\* cum_y does not fall across a segment whose share is not negative.
C4_CoordsOfAccepted ==
    Accepted =>
        /\ Len(x_coords) = n_points + 1
        /\ Len(cum_y) = n_points + 1
        /\ x_coords[1] = 0 /\ cum_y[1] = 0
        /\ x_coords[n_points + 1] = XScale
        /\ cum_y[n_points + 1] = Total
        /\ Abs(cum_y[n_points + 1] - YScale) <= Tolerance
        /\ Total = Percent(100) => cum_y[n_points + 1] = YScale
        /\ \A i \in 1..n_points :
              /\ x_coords[i] < x_coords[i + 1]
              /\ edited_df[i] >= 0 => cum_y[i] <= cum_y[i + 1]

\* C4 witness: an accepted 10-row table with a negative share, whose curve
\* falls across that segment.
C4_Witness ==
    /\ Accepted
    /\ n_points = 10
    /\ \E i \in 1..n_points : edited_df[i] < 0 /\ cum_y[i + 1] < cum_y[i]

\* C5: Area B is the trapezoid sum over the coordinate sequences, the Gini
\* is 1 - 2*areaB and Area A + Area B = 0.5, in the Manual Lab and (on both
\* ends of the enclosure) in the Simulator.
C5_GiniFromTrapezoid ==
    rendered =>
        /\ col_res = "metric" =>
              /\ area_b[1] = TrapezoidRule(x_coords, cum_y)
              /\ gini[1] = AreaScale - 2 * area_b[1]
              /\ AreaA(area_b[1]) + area_b[1] = Half
        /\ area_sim.lo =
              TrapezoidRule(x_sim, [i \in 1..Len(y_sim) |-> y_sim[i].lo])
        /\ area_sim.hi =
              TrapezoidRule(x_sim, [i \in 1..Len(y_sim) |-> y_sim[i].hi])
        /\ g_sim.lo = SimAreaScale - 2 * area_sim.hi
        /\ g_sim.hi = SimAreaScale - 2 * area_sim.lo

\* C5 witness: a run that integrated an unequal table and a bent curve.
C5_Witness ==
    /\ Accepted
    /\ ~AllEqual(edited_df)
    /\ gini[1] > 0
    /\ g_sim.lo > 0

C7_OneSegmentHoldsAll ==
    (rendered /\ edited_df \in OneHotTables(n_points)) =>
        /\ col_res = "metric"
        /\ gini[1] * n_points <= AreaScale * (n_points - 1)
        /\ edited_df[n_points] = Percent(100) =>
              gini[1] * n_points = AreaScale * (n_points - 1)

\* C7 witness: the 20-row table with everything in the last row has been run.
C7_Witness ==
    /\ Accepted
    /\ n_points = 20
    /\ edited_df \in OneHotTables(20)
    /\ edited_df[20] = Percent(100)
    /\ gini[1] * 20 = AreaScale * 19

\* C8: of two consecutive runs of the Simulator with exponents above 1, the
\* one with the larger exponent has the strictly larger Gini.
C8_GiniIncreasesWithExponent ==
    rendered =>
        /\ (SliderMin < prev_exp /\ prev_exp < n_exp) => prev_g.hi < g_sim.lo
        /\ (SliderMin < n_exp /\ n_exp < prev_exp) => g_sim.hi < prev_g.lo

\* C8 witness: the slider has gone from 9.9 to 10.0.
C8_Witness ==
    /\ rendered
    /\ prev_exp = SliderMax - 1
    /\ n_exp = SliderMax
    /\ prev_g.hi < g_sim.lo

\* C9: after any sequence of edits and segment-count changes, everything the
\* Manual Lab shows is what one execution of the script yields on the
\* current table and segment count alone.
C9_OutputsOfCurrentTable ==
    rendered =>
        LET fresh == ManualLab(n_points, edited_df)
        IN /\ current_total = fresh.current_total
           /\ banner = fresh.banner
           /\ cum_y = fresh.cum_y
           /\ x_coords = fresh.x_coords
           /\ area_b = fresh.area_b
           /\ calc_df = fresh.calc_df
           /\ gini = fresh.gini
           /\ metric = fresh.metric
           /\ col_res = fresh.col_res

\* C9 witness: a 10-row table reached by a segment-count change and edits,
\* with Area B shown.
C9_Witness ==
    /\ Accepted
    /\ n_points = 10
    /\ Cardinality({ i \in 1..n_points : edited_df[i] # InitShares(10)[i] }) >= 2
    /\ area_b # Some(Half)

====
